---- MODULE Spec2Model ----
(***************************************************************************)
(* MeridianEnergyUsageSensor.update() of                                   *)
(* custom_components/meridian_energy/sensor.py as a state machine.         *)
(*                                                                         *)
(* A CSV row is the sequence of its fields, as csv.reader yields it.       *)
(* Python indexes from 0 and TLA+ from 1, so the code's row[k] is          *)
(* row[k + 1] here.  The timestamp and quantity fields are sequences of    *)
(* one-character strings so that strptime and float are modelled on the    *)
(* text they are given; every other field is a string.                     *)
(*                                                                         *)
(* Energy quantities are kept in tenths of a kilowatt-hour, exactly, in    *)
(* place of Python's binary floating point.                                *)
(***************************************************************************)
EXTENDS Integers, Sequences, FiniteSets, TLC

\* Longest document, in rows, that get_data() returns in the model.
MaxRows == 3

\* sensor.py:130  `if len(row) < 2`
MinColumns == 2

\* sensor.py:161  `if start_date.minute == 59`
SummaryMinute == 59

\* sensor.py:187  datetime.strptime("21:00", "%H:%M").time()
NightStartHour == 21

\* sensor.py:189  datetime.strptime("07:00", "%H:%M").time()
NightEndHour == 7

-----------------------------------------------------------------------------
(***************************************************************************)
(* Text conversions                                                        *)
(***************************************************************************)

Digits == {"0", "1", "2", "3", "4", "5", "6", "7", "8", "9"}

DigitVal(c) ==
    CASE c = "0" -> 0 [] c = "1" -> 1 [] c = "2" -> 2 [] c = "3" -> 3
      [] c = "4" -> 4 [] c = "5" -> 5 [] c = "6" -> 6 [] c = "7" -> 7
      [] c = "8" -> 8 [] c = "9" -> 9

\* The character c stands at position p of s.
IsAt(s, p, c) == p <= Len(s) /\ s[p] = c

\* Number of consecutive digits of s from position p on, at most max.
RECURSIVE DigitRun(_, _, _)
DigitRun(s, p, max) ==
    IF max = 0 \/ p > Len(s) \/ s[p] \notin Digits
    THEN 0
    ELSE 1 + DigitRun(s, p + 1, max - 1)

\* Number of consecutive blanks of s from position p on.
RECURSIVE SpaceRun(_, _)
SpaceRun(s, p) ==
    IF p > Len(s) \/ s[p] # " " THEN 0 ELSE 1 + SpaceRun(s, p + 1)

\* Value of the n digits of s that start at position p.
RECURSIVE ToInt(_, _, _)
ToInt(s, p, n) ==
    IF n = 0 THEN 0 ELSE ToInt(s, p, n - 1) * 10 + DigitVal(s[p + n - 1])

IsLeap(y) == (y % 4 = 0 /\ y % 100 # 0) \/ y % 400 = 0

DaysInMonth(y, m) ==
    IF m = 2 THEN (IF IsLeap(y) THEN 29 ELSE 28)
    ELSE IF m \in {4, 6, 9, 11} THEN 30 ELSE 31

ValueError == [ok |-> FALSE]

(***************************************************************************)
(* datetime.strptime(s, "%d/%m/%Y %H:%M:%S").  %d, %m, %H, %M and %S take  *)
(* one or two digits, %Y exactly four, the blank of the format one or more *)
(* blanks, and the whole text must be consumed.  Field values out of range *)
(* and days the month does not have raise ValueError.                      *)
(***************************************************************************)
strptime(s) ==
    LET nd == DigitRun(s, 1, 2)
        p1 == 1 + nd
        nm == DigitRun(s, p1 + 1, 2)
        p2 == p1 + 1 + nm
        ny == DigitRun(s, p2 + 1, 4)
        p3 == p2 + 1 + ny
        ns == SpaceRun(s, p3)
        pH == p3 + ns
        nH == DigitRun(s, pH, 2)
        p4 == pH + nH
        nM == DigitRun(s, p4 + 1, 2)
        p5 == p4 + 1 + nM
        nS == DigitRun(s, p5 + 1, 2)
        pEnd == p5 + 1 + nS
        shape == /\ nd >= 1 /\ IsAt(s, p1, "/")
                 /\ nm >= 1 /\ IsAt(s, p2, "/")
                 /\ ny = 4 /\ ns >= 1
                 /\ nH >= 1 /\ IsAt(s, p4, ":")
                 /\ nM >= 1 /\ IsAt(s, p5, ":")
                 /\ nS >= 1 /\ pEnd = Len(s) + 1
        day == ToInt(s, 1, nd)
        month == ToInt(s, p1 + 1, nm)
        year == ToInt(s, p2 + 1, ny)
        hour == ToInt(s, pH, nH)
        minute == ToInt(s, p4 + 1, nM)
        second == ToInt(s, p5 + 1, nS)
    IN  IF /\ shape
           /\ year >= 1
           /\ month \in 1..12
           /\ day >= 1 /\ day <= DaysInMonth(year, month)
           /\ hour <= 23 /\ minute <= 59 /\ second <= 59
        THEN [ok |-> TRUE, year |-> year, month |-> month, day |-> day,
              hour |-> hour, minute |-> minute, second |-> second]
        ELSE ValueError

(***************************************************************************)
(* float(s) on decimal literals: an optional sign, digits, and optionally  *)
(* a point and more digits, with at least one digit in all.  The value is  *)
(* in tenths (the first fractional digit is kept).  Anything else raises   *)
(* ValueError.  Exponents, "inf", "nan" and surrounding blanks are outside *)
(* the texts the model feeds it.                                           *)
(***************************************************************************)
float(s) ==
    LET signed == IsAt(s, 1, "-") \/ IsAt(s, 1, "+")
        p0 == IF signed THEN 2 ELSE 1
        ni == DigitRun(s, p0, Len(s))
        hasDot == IsAt(s, p0 + ni, ".")
        pf == p0 + ni + 1
        nf == IF hasDot THEN DigitRun(s, pf, Len(s)) ELSE 0
        pEnd == IF hasDot THEN pf + nf ELSE p0 + ni
        mag == ToInt(s, p0, ni) * 10 + (IF nf >= 1 THEN DigitVal(s[pf]) ELSE 0)
    IN  IF ni + nf >= 1 /\ pEnd = Len(s) + 1
        THEN [ok |-> TRUE, val |-> IF IsAt(s, 1, "-") THEN 0 - mag ELSE mag]
        ELSE ValueError

\* tz.localize(start_date), tz = timezone("Pacific/Auckland"): the civil
\* fields are kept and the zone is attached.  The UTC offset the zone gives
\* the instant is not represented.
localize(dt) ==
    [year |-> dt.year, month |-> dt.month, day |-> dt.day, hour |-> dt.hour,
     minute |-> dt.minute, second |-> dt.second, tz |-> "Pacific/Auckland"]

\* start_date.replace(minute=0, second=0, microsecond=0)
RoundDown(dt) == [dt EXCEPT !.minute = 0, !.second = 0]

\* StatisticData(start=rounded_date, sum=runningSum)
StatisticData(start, sum) == [start |-> start, sum |-> sum]

-----------------------------------------------------------------------------
(***************************************************************************)
(* Row processing: the body of `for row in csv_file`                       *)
(***************************************************************************)

\* Variant of IsEstimated: the status check is missing.
IsEstimatedNever(read_status) == FALSE

\* `read_status != "RD"`: the read is an estimate and is skipped.
IsEstimated(read_status) == read_status # "RD"

\* Variant of IsNightRate: `>` in place of `>=` at 21:00.
IsNightRateAfterNine(rounded_date) ==
    \/ rounded_date.hour > NightStartHour
    \/ rounded_date.hour < NightEndHour

\* rounded_date.time() >= 21:00 or rounded_date.time() < 07:00.  The
\* rounded time has minute and second 0, so the comparison is on the hour.
IsNightRate(rounded_date) ==
    \/ rounded_date.hour >= NightStartHour
    \/ rounded_date.hour < NightEndHour

\* Variant of Accumulate: the quantity replaces the running sum.
AccumulateOverwrite(runningSum, quantity) == quantity

\* Variant of Accumulate: the quantity is subtracted.
AccumulateSubtract(runningSum, quantity) == runningSum - quantity

\* runningSum = runningSum + float(unit_quantity_active_energy_volume)
Accumulate(runningSum, quantity) == runningSum + quantity

\* Variant of EnergyVolume: a text that is no number counts as 0.
EnergyVolumeOrZero(unit_quantity_active_energy_volume) ==
    IF float(unit_quantity_active_energy_volume).ok
    THEN float(unit_quantity_active_energy_volume)
    ELSE [ok |-> TRUE, val |-> 0]

\* float(unit_quantity_active_energy_volume), the conversion of row[12] at
\* the line that adds it to a running sum.
EnergyVolume(unit_quantity_active_energy_volume) ==
    float(unit_quantity_active_energy_volume)

\* The outcome of one loop iteration: how control leaves it ("continue",
\* "break", or the exception raised) and the accumulators after it.
Outcome(ctl, acc) == [ctl |-> ctl, acc |-> acc]

(***************************************************************************)
(* One iteration of the loop on `row` with accumulators `acc`.  A row[k]   *)
(* beyond the row's length raises IndexError at the line that reads it.    *)
(***************************************************************************)
ProcessRow(row, acc) ==
    IF Len(row) < MinColumns THEN Outcome("break", acc)
    ELSE IF row[1] = "HDR" THEN Outcome("continue", acc)
    ELSE IF Len(row) < 7 THEN Outcome("IndexError", acc)
    ELSE IF Len(row) < 12 THEN Outcome("IndexError", acc)
    ELSE IF IsEstimated(row[12]) THEN Outcome("continue", acc)
    ELSE
      LET energy_flow_direction == row[7]
          start_date == strptime(row[10])
      IN  IF ~start_date.ok THEN Outcome("ValueError", acc)
          ELSE IF start_date.minute = SummaryMinute THEN Outcome("continue", acc)
          ELSE IF Len(row) < 13 THEN Outcome("IndexError", acc)
          ELSE
            LET rounded_date == RoundDown(localize(start_date))
                quantity == EnergyVolume(row[13])
            IN  IF ~quantity.ok THEN Outcome("ValueError", acc)
                ELSE IF energy_flow_direction = "I" THEN
                  LET sum == Accumulate(acc.solarRunningSum, quantity.val)
                  IN  Outcome("continue",
                        [acc EXCEPT !.solarRunningSum = sum,
                                    !.solarStatistics =
                                        Append(@, StatisticData(rounded_date, sum))])
                ELSE IF IsNightRate(rounded_date) THEN
                  LET sum == Accumulate(acc.nightRunningSum, quantity.val)
                  IN  Outcome("continue",
                        [acc EXCEPT !.nightRunningSum = sum,
                                    !.nightStatistics =
                                        Append(@, StatisticData(rounded_date, sum))])
                ELSE
                  LET sum == Accumulate(acc.dayRunningSum, quantity.val)
                  IN  Outcome("continue",
                        [acc EXCEPT !.dayRunningSum = sum,
                                    !.dayStatistics =
                                        Append(@, StatisticData(rounded_date, sum))])

-----------------------------------------------------------------------------
(***************************************************************************)
(* The documents get_data() returns in the model                           *)
(***************************************************************************)

DigitChar(k) == CHOOSE c \in Digits : DigitVal(c) = k

TwoDigits(n) == <<DigitChar(n \div 10), DigitChar(n % 10)>>

\* "15/03/2023 HH:MM:00"
Stamp(hour, minute) ==
    <<"1", "5", "/", "0", "3", "/", "2", "0", "2", "3", " ">>
        \o TwoDigits(hour) \o <<":">> \o TwoDigits(minute) \o <<":", "0", "0">>

\* A row of the 13 fields the code reads from; the fields it never reads
\* are left empty.
Row(tag, flow, stamp, status, qty) ==
    <<tag, "", "", "", "", "", flow, "", "", stamp, "", status, qty>>

Truncated(row, n) == SubSeq(row, 1, n)

DayRow == Row("DET", "E", Stamp(10, 30), "RD", <<"1", ".", "5">>)

MixedRows ==
    { DayRow,
      Row("DET", "E", Stamp(10, 45), "RD", <<"2", ".", "5">>),
      Row("DET", "E", Stamp(22, 15), "RD", <<"1", ".", "0">>),
      Row("DET", "I", Stamp(22, 15), "RD", <<"2", ".", "0">>),
      Row("DET", "E", Stamp(10, 30), "EST", <<"1", ".", "5">>),
      Row("DET", "E", Stamp(23, 59), "RD", <<"9", ".", "0">>),
      Row("DET", "E", <<"2", "0", "2", "3", "-", "0", "3", "-", "1", "5">>,
          "RD", <<"1", ".", "5">>),
      Row("DET", "E", Stamp(10, 30), "RD", <<"a", "b", "c">>),
      Row("DET", "E", Stamp(10, 30), "RD", <<"-", "1", ".", "0">>),
      Row("HDR", "", Stamp(0, 0), "", <<>>),
      <<>>,
      Truncated(DayRow, 3),
      Truncated(DayRow, 12),
      Truncated(Row("HDR", "", Stamp(0, 0), "", <<>>), 2) }

\* One real read for every hour of the day and either flow direction.
HourlyRows ==
    { Row("DET", flow, Stamp(hour, 0), "RD", <<"1", ".", "0">>) :
          flow \in {"I", "E"}, hour \in 0..23 }

\* Documents of up to MaxRows rows, and the one-row documents that cover
\* every hour.
Documents ==
    UNION { [1..n -> MixedRows] : n \in 0..MaxRows }
        \cup { <<row>> : row \in HourlyRows }

-----------------------------------------------------------------------------
(***************************************************************************)
(* update()                                                                *)
(***************************************************************************)

VARIABLES
    pc,                 \* where update() stands; "idle" outside a call
    invokedBefore,      \* update() had been invoked before this invocation
    result,             \* "none", "running", "returned" or the exception raised
    apiCalls,           \* calls of this invocation on self._api, in order
    sinkCalls,          \* async_add_external_statistics calls of this invocation
    doc,                \* the rows of csv_file
    i,                  \* rows the loop has taken from csv_file
    solarStatistics, solarRunningSum,
    dayStatistics, dayRunningSum,
    nightStatistics, nightRunningSum

sums == <<solarStatistics, solarRunningSum, dayStatistics, dayRunningSum,
          nightStatistics, nightRunningSum>>

vars == <<pc, invokedBefore, result, apiCalls, sinkCalls, doc, i, sums>>

Acc ==
    [solarStatistics |-> solarStatistics, solarRunningSum |-> solarRunningSum,
     dayStatistics |-> dayStatistics, dayRunningSum |-> dayRunningSum,
     nightStatistics |-> nightStatistics, nightRunningSum |-> nightRunningSum]

Init ==
    /\ pc = "idle"
    /\ invokedBefore = FALSE
    /\ result = "none"
    /\ apiCalls = <<>>
    /\ sinkCalls = <<>>
    /\ doc = <<>>
    /\ i = 0
    /\ solarStatistics = <<>> /\ solarRunningSum = 0
    /\ dayStatistics = <<>> /\ dayRunningSum = 0
    /\ nightStatistics = <<>> /\ nightRunningSum = 0

\* An exception leaves update(): nothing after the raising line runs.
Raise(exception) ==
    /\ pc' = "idle"
    /\ result' = exception

\* Variant of BeginUpdate: the accumulators outlive the invocation.
BeginUpdateNoReset ==
    /\ pc = "idle"
    /\ invokedBefore' = (result # "none")
    /\ pc' = "login"
    /\ result' = "running"
    /\ apiCalls' = <<>>
    /\ sinkCalls' = <<>>
    /\ doc' = <<>>
    /\ i' = 0
    /\ UNCHANGED sums

\* update() is entered and its accumulators are created (lines 110-117).
BeginUpdate ==
    /\ pc = "idle"
    /\ invokedBefore' = (result # "none")
    /\ pc' = "login"
    /\ result' = "running"
    /\ apiCalls' = <<>>
    /\ sinkCalls' = <<>>
    /\ doc' = <<>>
    /\ i' = 0
    /\ solarStatistics' = <<>> /\ solarRunningSum' = 0
    /\ dayStatistics' = <<>> /\ dayRunningSum' = 0
    /\ nightStatistics' = <<>> /\ nightRunningSum' = 0

ApiCall(name, ok) == [call |-> name, ok |-> ok]

\* Variant of Token: a failed login is ignored and update() goes on.
TokenIgnoresFailure ==
    /\ pc = "login"
    /\ \E ok \in BOOLEAN :
          /\ apiCalls' = Append(apiCalls, ApiCall("token", ok))
          /\ pc' = "fetch"
    /\ UNCHANGED <<invokedBefore, result, sinkCalls, doc, i, sums>>

\* self._api.token(): returns, or raises and the exception leaves update().
Token ==
    /\ pc = "login"
    /\ \E ok \in BOOLEAN :
          /\ apiCalls' = Append(apiCalls, ApiCall("token", ok))
          /\ IF ok THEN pc' = "fetch" /\ UNCHANGED result
                   ELSE Raise("AuthError")
    /\ UNCHANGED <<invokedBefore, sinkCalls, doc, i, sums>>

\* Where control goes after a row that ends with `continue` or after the
\* reader is created: to the next row, or past the loop when csv_file is
\* exhausted.
AfterRow(rows, taken) == IF taken < Len(rows) THEN "loop" ELSE "solar"

\* response = self._api.get_data(); csv_file = csv.reader(StringIO(response))
GetData ==
    /\ pc = "fetch"
    /\ \/ /\ apiCalls' = Append(apiCalls, ApiCall("get_data", TRUE))
          /\ \E response \in Documents :
                /\ doc' = response
                /\ pc' = AfterRow(response, 0)
          /\ UNCHANGED result
       \/ /\ apiCalls' = Append(apiCalls, ApiCall("get_data", FALSE))
          /\ Raise("FetchError")
          /\ UNCHANGED doc
    /\ UNCHANGED <<invokedBefore, sinkCalls, i, sums>>

SetAcc(acc) ==
    /\ solarStatistics' = acc.solarStatistics
    /\ solarRunningSum' = acc.solarRunningSum
    /\ dayStatistics' = acc.dayStatistics
    /\ dayRunningSum' = acc.dayRunningSum
    /\ nightStatistics' = acc.nightStatistics
    /\ nightRunningSum' = acc.nightRunningSum

\* Variant of StepRow: an exception in the loop body ends the loop like
\* `break`.
StepRowSwallowsErrors ==
    /\ pc = "loop"
    /\ i < Len(doc)
    /\ LET out == ProcessRow(doc[i + 1], Acc)
       IN  /\ i' = i + 1
           /\ SetAcc(out.acc)
           /\ pc' = IF out.ctl = "continue" THEN AfterRow(doc, i + 1) ELSE "solar"
           /\ UNCHANGED result
    /\ UNCHANGED <<invokedBefore, apiCalls, sinkCalls, doc>>

\* One iteration of `for row in csv_file` (lines 128-205), including where
\* control goes next.
StepRow ==
    /\ pc = "loop"
    /\ i < Len(doc)
    /\ LET out == ProcessRow(doc[i + 1], Acc)
       IN  /\ i' = i + 1
           /\ SetAcc(out.acc)
           /\ CASE out.ctl = "continue" ->
                     pc' = AfterRow(doc, i + 1) /\ UNCHANGED result
                [] out.ctl = "break" ->
                     pc' = "solar" /\ UNCHANGED result
                [] OTHER -> Raise(out.ctl)
    /\ UNCHANGED <<invokedBefore, apiCalls, sinkCalls, doc>>

\* async_add_external_statistics(self.hass, metadata, statistics); the
\* metadata is represented by the part of its statistic_id after DOMAIN.
SinkCall(statistic_id, statistics) ==
    [statistic_id |-> statistic_id, statistics |-> statistics]

\* Variant of EmitSolar: an empty point sequence is not handed over.
EmitSolarIfAny ==
    /\ pc = "solar"
    /\ sinkCalls' = IF solarStatistics = <<>> THEN sinkCalls
                    ELSE Append(sinkCalls, SinkCall("return_to_grid", solarStatistics))
    /\ pc' = "day"
    /\ UNCHANGED <<invokedBefore, result, apiCalls, doc, i, sums>>

\* Lines 207-215.
EmitSolar ==
    /\ pc = "solar"
    /\ sinkCalls' = Append(sinkCalls, SinkCall("return_to_grid", solarStatistics))
    /\ pc' = "day"
    /\ UNCHANGED <<invokedBefore, result, apiCalls, doc, i, sums>>

\* Lines 217-225.
EmitDay ==
    /\ pc = "day"
    /\ sinkCalls' = Append(sinkCalls, SinkCall("consumption_day", dayStatistics))
    /\ pc' = "night"
    /\ UNCHANGED <<invokedBefore, result, apiCalls, doc, i, sums>>

\* Lines 227-235, after which update() returns.
EmitNight ==
    /\ pc = "night"
    /\ sinkCalls' = Append(sinkCalls, SinkCall("consumption_night", nightStatistics))
    /\ pc' = "idle"
    /\ result' = "returned"
    /\ UNCHANGED <<invokedBefore, apiCalls, doc, i, sums>>

Next ==
    \/ BeginUpdate
    \/ Token
    \/ GetData
    \/ StepRow
    \/ EmitSolar
    \/ EmitDay
    \/ EmitNight

Spec == Init /\ [][Next]_vars

-----------------------------------------------------------------------------
(***************************************************************************)
(* The conversion as a function of the document alone                      *)
(***************************************************************************)

Fresh ==
    [solarStatistics |-> <<>>, solarRunningSum |-> 0,
     dayStatistics |-> <<>>, dayRunningSum |-> 0,
     nightStatistics |-> <<>>, nightRunningSum |-> 0]

\* The loop over rows[k..], from accumulators acc: the outcome of the row
\* that leaves the loop, or "end" when the rows run out.
RECURSIVE Loop(_, _, _)
Loop(rows, k, acc) ==
    IF k > Len(rows) THEN Outcome("end", acc)
    ELSE LET out == ProcessRow(rows[k], acc)
         IN  IF out.ctl = "continue" THEN Loop(rows, k + 1, out.acc) ELSE out

\* What update() does on the document `rows` when it starts from fresh
\* accumulators: how it ends and the sink calls it makes.
RunOf(rows) ==
    LET out == Loop(rows, 1, Fresh)
    IN  IF out.ctl \in {"end", "break"}
        THEN [result |-> "returned",
              sinkCalls |-> <<SinkCall("return_to_grid", out.acc.solarStatistics),
                              SinkCall("consumption_day", out.acc.dayStatistics),
                              SinkCall("consumption_night", out.acc.nightStatistics)>>]
        ELSE [result |-> out.ctl, sinkCalls |-> <<>>]

-----------------------------------------------------------------------------
(***************************************************************************)
(* Vocabulary of the properties                                            *)
(***************************************************************************)

Errors == {"AuthError", "FetchError", "IndexError", "ValueError"}

\* The invocation has ended, by returning or by raising.
Finished == pc = "idle" /\ result \in Errors \cup {"returned"}

\* The rows the loop has taken so far.
Processed == SubSeq(doc, 1, i)

RemoveAt(rows, k) == SubSeq(rows, 1, k - 1) \o SubSeq(rows, k + 1, Len(rows))

IsPrefix(s, t) == Len(s) <= Len(t) /\ s = SubSeq(t, 1, Len(s))

SinkIds == [n \in 1..Len(sinkCalls) |-> sinkCalls[n].statistic_id]

ChannelOrder == <<"return_to_grid", "consumption_day", "consumption_night">>

\* A row that passes every check and is parsed in full: not a header, a
\* real read, a well-formed start time that is not on minute 59, and a
\* numeric quantity.
Accepted(row) ==
    /\ Len(row) >= 13
    /\ row[1] # "HDR"
    /\ row[12] = "RD"
    /\ LET start == strptime(row[10])
       IN  start.ok /\ start.minute # 59
    /\ float(row[13]).ok

\* The channel the classification rule gives an accepted row.
RuleChannel(row) ==
    LET hour == strptime(row[10]).hour
    IN  IF row[7] = "I" THEN "solar"
        ELSE IF hour \in (21..23) \cup (0..6) THEN "night"
        ELSE IF hour \in 7..20 THEN "day"
        ELSE "none"

\* The accepted rows taken so far that the rule routes to `channel`.
ChannelRows(channel) ==
    SelectSeq(Processed, LAMBDA row : Accepted(row) /\ RuleChannel(row) = channel)

\* Sum of the quantities of the first n rows of `rows`.
RECURSIVE SumQty(_, _)
SumQty(rows, n) ==
    IF n = 0 THEN 0 ELSE SumQty(rows, n - 1) + float(rows[n][13]).val

\* The start of the hour that contains the row's start time.
BucketStart(row) ==
    LET t == strptime(row[10])
    IN  [year |-> t.year, month |-> t.month, day |-> t.day, hour |-> t.hour,
         minute |-> 0, second |-> 0, tz |-> "Pacific/Auckland"]

\* `statistics` holds one point per row of `rows`, in order, the n-th with
\* the row's bucket and the sum of the first n quantities.
PointsMatch(statistics, rows) ==
    /\ Len(statistics) = Len(rows)
    /\ \A n \in 1..Len(rows) :
          /\ statistics[n].sum = SumQty(rows, n)
          /\ statistics[n].start = BucketStart(rows[n])

NonDecreasing(statistics) ==
    \A n \in 1..(Len(statistics) - 1) : statistics[n].sum <= statistics[n + 1].sum

-----------------------------------------------------------------------------
(***************************************************************************)
(* Properties                                                              *)
(***************************************************************************)

\* C1: a row with fewer than 13 fields is the last row the loop takes: the
\* loop is left at it, the update does not raise, and what the update hands
\* to the sink is what the rows before it produce.
C1_ShortRowHaltsAndEmits ==
    \A k \in 1..i :
        Len(doc[k]) < 13 =>
            /\ k = i
            /\ pc # "loop"
            /\ result \in {"running", "returned"}
            /\ result = "returned" =>
                   sinkCalls = RunOf(SubSeq(doc, 1, k - 1)).sinkCalls

\* C2 as stated: every invocation that fetched a document of full rows has,
\* when it ends, called the sink three times in the channel order.
C2_AlwaysThreeSinkCalls ==
    ( /\ Finished
      /\ result \notin {"AuthError", "FetchError"}
      /\ \A k \in 1..Len(doc) : Len(doc[k]) >= 13 )
        => SinkIds = ChannelOrder

\* C2 amended: the sink calls of an invocation are always a prefix of
\* Solar, Day, Night, each carrying its channel's point sequence; an
\* invocation that returns has made all three, also for empty sequences,
\* and one that raises has made none.
C2_ThreeSinkCallsOrNone ==
    /\ IsPrefix(SinkIds, ChannelOrder)
    /\ \A n \in 1..Len(sinkCalls) :
          sinkCalls[n].statistics =
              <<solarStatistics, dayStatistics, nightStatistics>>[n]
    /\ result = "returned" => SinkIds = ChannelOrder
    /\ result \in Errors => sinkCalls = <<>>

\* C2 witness: an update over a document with rows returned after three
\* sink calls, every one of them with an empty point sequence.
C2_Witness ==
    /\ result = "returned"
    /\ Len(doc) >= 1
    /\ Len(sinkCalls) = 3
    /\ \A n \in 1..3 : sinkCalls[n].statistics = <<>>

\* C3: the step that processes an accepted row adds one point to the channel
\* the rule names (Solar for flow "I" at any hour, else Night for hours
\* 21..23 and 0..6, Day for hours 7..20) and none to the other two.
C3_Routing ==
    [][ (pc = "loop" /\ i < Len(doc) /\ Accepted(doc[i + 1])) =>
          LET channel == RuleChannel(doc[i + 1])
              grows(c) == IF channel = c THEN 1 ELSE 0
          IN  /\ channel \in {"solar", "day", "night"}
              /\ Len(solarStatistics') = Len(solarStatistics) + grows("solar")
              /\ Len(dayStatistics') = Len(dayStatistics) + grows("day")
              /\ Len(nightStatistics') = Len(nightStatistics) + grows("night")
      ]_vars

\* C3 witness: all three channels hold a point, the Solar one for a read in
\* the night hours.
C3_Witness ==
    /\ solarStatistics # <<>> /\ solarStatistics[1].start.hour = 22
    /\ dayStatistics # <<>>
    /\ nightStatistics # <<>>

\* C4: each channel holds exactly one point per accepted row the rule routes
\* to it, in source order, the n-th point carrying the sum of the first n
\* such quantities; rows with the same bucket stay separate points, so the
\* points of the three channels number the accepted rows taken.
C4_OnePointPerAcceptedRow ==
    /\ PointsMatch(solarStatistics, ChannelRows("solar"))
    /\ PointsMatch(dayStatistics, ChannelRows("day"))
    /\ PointsMatch(nightStatistics, ChannelRows("night"))
    /\ Len(solarStatistics) + Len(dayStatistics) + Len(nightStatistics)
           = Len(SelectSeq(Processed, Accepted))

\* C4 witness: two accepted rows of the same hour gave the Day channel two
\* points with the same bucket start and different sums.
C4_Witness ==
    /\ Len(dayStatistics) = 2
    /\ dayStatistics[1].start = dayStatistics[2].start
    /\ dayStatistics[1].sum # dayStatistics[2].sum

\* No accepted row taken so far carries a negative quantity.
NonNegativeSoFar ==
    \A k \in 1..i : Accepted(doc[k]) => float(doc[k][13]).val >= 0

\* C5: while the accepted quantities are non-negative, the sums of each
\* channel's points are non-decreasing in append order, and no step of the
\* row loop lowers a running sum.
C5_MonotoneSums ==
    /\ [](NonNegativeSoFar =>
             /\ NonDecreasing(solarStatistics)
             /\ NonDecreasing(dayStatistics)
             /\ NonDecreasing(nightStatistics))
    /\ [][ (pc = "loop" /\ i < Len(doc)
              /\ (Accepted(doc[i + 1]) => float(doc[i + 1][13]).val >= 0)) =>
              /\ solarRunningSum' >= solarRunningSum
              /\ dayRunningSum' >= dayRunningSum
              /\ nightRunningSum' >= nightRunningSum
         ]_vars

\* C5 witness: an update over non-negative quantities returned with three
\* points on the Day channel.
C5_Witness ==
    /\ result = "returned"
    /\ NonNegativeSoFar
    /\ Len(dayStatistics) = 3

\* A row the loop skips as an estimate or as a daily total.
SkippedRead(row) ==
    /\ Len(row) >= 12
    /\ row[1] # "HDR"
    /\ \/ row[12] # "RD"
       \/ strptime(row[10]).ok /\ strptime(row[10]).minute = 59

\* C6: the step that takes a row whose status is not "RD" or whose minute is
\* 59 changes no running sum and no point sequence, and a finished update
\* ends as, and emits what, the update over the document without that row
\* does.
C6_SkippedRowAsIfAbsent ==
    /\ [][ (pc = "loop" /\ i < Len(doc) /\ SkippedRead(doc[i + 1])) =>
              (UNCHANGED sums /\ pc' # "idle") ]_vars
    /\ [](Finished =>
             \A k \in 1..Len(doc) :
                 SkippedRead(doc[k]) =>
                     /\ result = RunOf(RemoveAt(doc, k)).result
                     /\ sinkCalls = RunOf(RemoveAt(doc, k)).sinkCalls)

\* C6 witness: an update returned over an estimated row, a minute-59 row
\* and an accepted row after them, whose point was emitted.
C6_Witness ==
    /\ result = "returned"
    /\ Len(doc) = 3
    /\ Len(doc[1]) >= 12 /\ doc[1][12] = "EST"
    /\ SkippedRead(doc[2]) /\ doc[2][12] = "RD"
    /\ Accepted(doc[3])
    /\ Len(sinkCalls) = 3
    /\ Len(sinkCalls[1].statistics) + Len(sinkCalls[2].statistics)
           + Len(sinkCalls[3].statistics) = 1

\* C7: the API calls of an invocation are token then get_data, each at most
\* once; rows are processed and the sink is called only after both
\* returned; a failed call is the last thing the invocation does: its
\* exception leaves update(), no row is taken and no sink call is made.
C7_LoginThenFetch ==
    /\ IsPrefix([n \in 1..Len(apiCalls) |-> apiCalls[n].call], <<"token", "get_data">>)
    /\ (i > 0 \/ pc \in {"loop", "solar", "day", "night"} \/ sinkCalls # <<>>)
           => apiCalls = <<ApiCall("token", TRUE), ApiCall("get_data", TRUE)>>
    /\ \A n \in 1..Len(apiCalls) :
          ~apiCalls[n].ok =>
              /\ n = Len(apiCalls)
              /\ pc = "idle"
              /\ result = IF apiCalls[n].call = "token" THEN "AuthError"
                                                        ELSE "FetchError"
              /\ i = 0
              /\ sinkCalls = <<>>

\* C7 witness: get_data failed after token returned, and the update ended
\* with that failure and no sink call.
C7_Witness ==
    /\ apiCalls = <<ApiCall("token", TRUE), ApiCall("get_data", FALSE)>>
    /\ result = "FetchError"
    /\ sinkCalls = <<>>

\* A row that cannot be validated and parsed in full: too few fields, a
\* start time that is not dd/mm/yyyy HH:MM:SS, or a non-numeric quantity.
Unparseable(row) ==
    \/ Len(row) < 13
    \/ ~strptime(row[10]).ok
    \/ ~float(row[13]).ok

\* The point sequence of a channel, given the channel's statistic id.
RowsOfId(statistic_id) ==
    ChannelRows(CASE statistic_id = "return_to_grid" -> "solar"
                  [] statistic_id = "consumption_day" -> "day"
                  [] statistic_id = "consumption_night" -> "night")

\* C8: the step that takes a row that cannot be validated and parsed in full
\* changes no running sum and no point sequence, and every sum handed to the
\* sink is a sum of quantities of accepted rows only.
C8_BadRowTouchesNoSum ==
    /\ [][ (pc = "loop" /\ i < Len(doc) /\ Unparseable(doc[i + 1])) =>
              UNCHANGED sums ]_vars
    /\ [](\A n \in 1..Len(sinkCalls) :
             PointsMatch(sinkCalls[n].statistics, RowsOfId(sinkCalls[n].statistic_id)))

\* C8 witness: the loop took an accepted row and then a row that cannot be
\* parsed, and the Day running sum is still the first row's quantity.
C8_Witness ==
    /\ i = 2
    /\ Accepted(doc[1]) /\ RuleChannel(doc[1]) = "day"
    /\ Len(doc[2]) >= 13 /\ ~float(doc[2][13]).ok /\ doc[2][12] = "RD"
    /\ dayRunningSum = float(doc[1][13]).val
    /\ Len(dayStatistics) = 1

\* A real read that passes the status check and then fails to parse: its
\* start time is malformed, or its quantity is not a number.
RaisesOnParse(row) ==
    /\ Len(row) >= 13
    /\ row[1] # "HDR"
    /\ row[12] = "RD"
    /\ \/ ~strptime(row[10]).ok
       \/ strptime(row[10]).minute # 59 /\ ~float(row[13]).ok

\* C9: sink calls are made only once the loop is over, at the end of the
\* document or at a row with too few fields; a row that raises while it is
\* parsed is the last row taken, the update ends with ValueError and no sink
\* call is made.
C9_AllOrNothing ==
    /\ sinkCalls # <<>> =>
          /\ pc \in {"day", "night", "idle"}
          /\ result \in {"running", "returned"}
          /\ i = Len(doc) \/ (i > 0 /\ Len(doc[i]) < 13)
    /\ \A k \in 1..i :
          RaisesOnParse(doc[k]) =>
              /\ k = i
              /\ pc = "idle"
              /\ result = "ValueError"
              /\ sinkCalls = <<>>

\* C9 witness: an update that had accumulated points on two rows ended with
\* ValueError on the third and emitted nothing.
C9_Witness ==
    /\ result = "ValueError"
    /\ i = 3
    /\ Len(solarStatistics) + Len(dayStatistics) + Len(nightStatistics) = 2
    /\ sinkCalls = <<>>

\* C10: every invocation starts with the three running sums at 0 and the
\* three point sequences empty, whatever the invocations before it left, and
\* how it ends and what it emits are those of a run over its own document
\* from fresh accumulators.
C10_NoCarryOver ==
    /\ pc = "login" => Acc = Fresh
    /\ (Finished /\ result \notin {"AuthError", "FetchError"}) =>
          /\ result = RunOf(doc).result
          /\ sinkCalls = RunOf(doc).sinkCalls

\* C10 witness: a second invocation returned with points emitted.
C10_Witness ==
    /\ invokedBefore
    /\ result = "returned"
    /\ Len(sinkCalls) = 3
    /\ sinkCalls[2].statistics # <<>>

====
